---- MODULE Spec2Model ----
(***************************************************************************)
(* The search-and-enrichment pipeline of the GitHub crawler:                *)
(* GitHubCrawler.__init__ (crawler/crawler.py) validates the category, the  *)
(* parser classes of crawler/parsers.py select a proxy, fetch the search    *)
(* page, extract the result links and, for repositories, fan the results    *)
(* out to a ThreadPoolExecutor whose workers fetch each repository page     *)
(* and write its language statistics into the result record.                *)
(* search() is the one of the parser class whose search_type attribute is   *)
(* the crawler's category, as tests.py calls it through GitHubCrawler.      *)
(*                                                                          *)
(* Strings the code inspects character by character (the category token,   *)
(* the hrefs) are sequences of one-character strings; an aria-label is the  *)
(* sequence of its space-separated words.                                   *)
(***************************************************************************)
EXTENDS Integers, Sequences, FiniteSets, TLC

VARIABLES
    token,          \* search_type argument of GitHubCrawler(...)
    proxies,        \* proxies argument: the proxy pool
    links,          \* hrefs of 'div.search-title > a' in the search page
    pc,             \* position of the caller's thread
    search_type,    \* self.search_type
    current_proxy,  \* self.current_proxy
    error,          \* the exception that left the constructor or search()
    primary,        \* the primary request: proxy used, status received
    parsed,         \* _parse_results has been called
    results,        \* the local list `results` of search()
    submitted,      \* number of work items executor.map has submitted
    numThreads,     \* len(executor._threads)
    fut,            \* per result: state of its work item and its exception
    fetchProxy,     \* per result: proxies= of its enrichment request
    runs,           \* per result: number of _fetch_repo_language calls
    pages,          \* per url: the response of the site to a request
    returned,       \* the value search() returned
    outOfOrder      \* some worker finished before one of a lower index

vars == << token, proxies, links, pc, search_type, current_proxy, error,
           primary, parsed, results, submitted, numThreads, fut, fetchProxy,
           runs, pages, returned, outOfOrder >>

----------------------------------------------------------------------------
(* Bounds of the model *)

\* longest list of result links in the search page (Spec)
MaxLinks == 3

\* longest list of result links in the search page (SpecPool)
MaxPoolLinks == 11

----------------------------------------------------------------------------
(* Strings *)

UpperLetters == << "A","B","C","D","E","F","G","H","I","J","K","L","M",
                   "N","O","P","Q","R","S","T","U","V","W","X","Y","Z" >>

LowerLetters == << "a","b","c","d","e","f","g","h","i","j","k","l","m",
                   "n","o","p","q","r","s","t","u","v","w","x","y","z" >>

\* str.lower() on one character
LowerChar(c) ==
    IF \E k \in 1..26 : UpperLetters[k] = c
    THEN LowerLetters[CHOOSE k \in 1..26 : UpperLetters[k] = c]
    ELSE c

\* the token compared as it was given
LowerOmitted(s) == s

\* str.lower()
Lower(s) == [k \in 1..Len(s) |-> LowerChar(s[k])]

\* the three literals of the membership test
Repositories == << "r","e","p","o","s","i","t","o","r","i","e","s" >>

Wikis == << "w","i","k","i","s" >>

Issues == << "i","s","s","u","e","s" >>

SearchTypes == { Repositories, Wikis, Issues }

\* self.search_type not in ('repositories', 'wikis', 'issues')
UnknownSearchType(t) == t \notin SearchTypes

\* str.strip('/')
RECURSIVE StripSlash(_)
StripSlash(s) ==
    IF s = << >> THEN s
    ELSE IF Head(s) = "/" THEN StripSlash(Tail(s))
    ELSE IF s[Len(s)] = "/" THEN StripSlash(SubSeq(s, 1, Len(s) - 1))
    ELSE s

\* str.split('/')[0]
RECURSIVE FirstSegment(_)
FirstSegment(s) ==
    IF s = << >> \/ Head(s) = "/" THEN << >>
    ELSE << Head(s) >> \o FirstSegment(Tail(s))

\* link['href'].strip('/').split('/')[0]
Owner(href) == FirstSegment(StripSlash(href))

\* BaseParser.base_url; scheme and host are one symbol of a url
base_url == << "https://github.com" >>

\* urljoin(base, ref) for a base with an empty path
UrlJoin(base, ref) ==
    IF ref = << >> THEN base
    ELSE IF Head(ref) = Head(base) THEN ref
    ELSE IF Len(ref) >= 2 /\ ref[1] = "/" /\ ref[2] = "/"
         THEN << "https:" >> \o ref
    ELSE IF Head(ref) = "/" THEN base \o ref
    ELSE base \o << "/" >> \o ref

----------------------------------------------------------------------------
(* Inputs *)

\* "Repositories" (main.py, tests.py), its lowercase and uppercase forms,
\* "Issues", "Wikis", "wrong-type" (tests.py) and a proper prefix
Tokens ==
    { << "R","e","p","o","s","i","t","o","r","i","e","s" >>,
      << "r","e","p","o","s","i","t","o","r","i","e","s" >>,
      << "I","s","s","u","e","s" >>,
      << "W","I","K","I","S" >>,
      << "w","r","o","n","g","-","t","y","p","e" >>,
      << "W","i","k","i" >> }

\* proxy pools: empty, and the two proxies of tests.py
Pools == { << >>, << "194.126.37.94:8080", "13.78.125.167:8080" >> }

\* hrefs of result links: "/a/x" and "/b/y/"
Hrefs == { << "/","a","/","x" >>, << "/","b","/","y","/" >> }

\* the href every link of the long search pages carries
PoolHref == << "/","a","/","x" >>

\* status codes of the search page
Statuses == { 200, 204, 404, 429 }

\* repository pages: not found; no Languages heading; a heading without
\* spans; the page of tests.py; a page with a two-word language, a language
\* the other page also lists, and an aria-label without a percentage
PageKinds ==
    { [status |-> 404, heading |-> FALSE, spans |-> << >>],
      [status |-> 200, heading |-> FALSE, spans |-> << >>],
      [status |-> 200, heading |-> TRUE,  spans |-> << >>],
      [status |-> 200, heading |-> TRUE,
       spans |-> << << "Python", "97.3" >>, << "Other", "2.7" >> >>],
      [status |-> 200, heading |-> TRUE,
       spans |-> << << "Jupyter", "Notebook", "55.0" >>,
                    << "Python", "45.0" >>, << "Makefile" >> >>] }

Range(s) == { s[k] : k \in 1..Len(s) }

----------------------------------------------------------------------------
(* Exceptions *)

NoError == [type |-> "none", status |-> 0, name |-> << >>]

\* Exception(f"Unknown search_type: {self.search_type}")
UnknownSearchTypeError(t) ==
    [type |-> "UnknownSearchType", status |-> 0, name |-> t]

\* random.choice of an empty sequence
EmptyPoolError == [type |-> "EmptyProxyPool", status |-> 0, name |-> << >>]

\* Exception(f"Failed to fetch ... data. HTTP Status Code: {status_code}")
FetchError(status) == [type |-> "FetchFailed", status |-> status, name |-> << >>]

\* 'NoneType' object has no attribute 'find_parent'
AttributeError == [type |-> "AttributeError", status |-> 0, name |-> << >>]

\* not enough values to unpack (expected 2, got 1)
ValueError == [type |-> "ValueError", status |-> 0, name |-> << >>]

----------------------------------------------------------------------------
(* Parsing *)

\* only client and server errors count as a failed fetch
NotOkFrom400(status) == status >= 400

\* response.status_code != 200
NotOk(status) == status # 200

\* the empty dict
EmptyDict == [k \in {} |-> << >>]

\* d[k] = v
Put(d, k, v) == [x \in DOMAIN d \cup {k} |-> IF x = k THEN v ELSE d[x]]

\* the hrefs without the repetitions of an earlier href
RECURSIVE KeepFirst(_, _)
KeepFirst(done, rest) ==
    IF rest = << >> THEN done
    ELSE IF Head(rest) \in Range(done) THEN KeepFirst(done, Tail(rest))
    ELSE KeepFirst(Append(done, Head(rest)), Tail(rest))

\* one record per distinct href
RepositoryResultsByUrl(hrefs) ==
    LET hs == KeepFirst(<< >>, hrefs)
    IN  [k \in 1..Len(hs) |->
            [url |-> UrlJoin(base_url, hs[k]),
             extra |-> [owner |-> Owner(hs[k]), language_stats |-> EmptyDict]]]

\* RepositoryParser._parse_results
RepositoryResults(hrefs) ==
    [k \in 1..Len(hrefs) |->
        [url |-> UrlJoin(base_url, hrefs[k]),
         extra |-> [owner |-> Owner(hrefs[k]), language_stats |-> EmptyDict]]]

\* WikisIssuesBaseParser._parse_results
UrlResults(hrefs) ==
    [k \in 1..Len(hrefs) |-> [url |-> UrlJoin(base_url, hrefs[k])]]

\* the for loop of _fetch_repo_language over the spans from position k on:
\* the language_stats it leaves and the exception that ends it
RECURSIVE SpanLoop(_, _, _)
SpanLoop(stats, spans, k) ==
    IF k > Len(spans) THEN [stats |-> stats, exc |-> NoError]
    ELSE IF Len(spans[k]) < 2 THEN [stats |-> stats, exc |-> ValueError]
    ELSE LET label == spans[k]
             language == SubSeq(label, 1, Len(label) - 1)
             percentage == label[Len(label)]
         IN  SpanLoop(Put(stats, language, << percentage, "%" >>), spans, k + 1)

\* the body of _fetch_repo_language after the response arrived
ParseRepoPage(stats, page) ==
    IF NotOk(page.status) THEN [stats |-> stats, exc |-> FetchError(page.status)]
    ELSE IF ~page.heading THEN [stats |-> stats, exc |-> AttributeError]
    ELSE SpanLoop(stats, page.spans, 1)

----------------------------------------------------------------------------
(* The thread pool *)

\* crawler.crawler.MAX_WORKERS
MAX_WORKERS == 10

\* one thread per result link
PoolWidthPerLink == Len(links)

\* ThreadPoolExecutor(max_workers=MAX_WORKERS)
PoolWidth == MAX_WORKERS

Created == [state |-> "created", exc |-> NoError]

InState(f, st) == { k \in DOMAIN f : f[k].state = st }

\* the executor is left without waiting for its threads
AllFinishedNotAwaited(f) == TRUE

\* shutdown(wait=True): every work item has run
AllFinished(f) == \A k \in DOMAIN f : f[k].state = "finished"

\* ThreadPoolExecutor._adjust_thread_count after one more work item was
\* queued: a thread is started unless one is idle or the pool is full
AdjustThreadCount(n, f) ==
    IF n > Cardinality(InState(f, "queued")) + Cardinality(InState(f, "running"))
    THEN n
    ELSE IF n < PoolWidth THEN n + 1 ELSE n

----------------------------------------------------------------------------
(* Operations *)

\* no proxy (a direct connection) when the pool is empty
RandomProxyOrDirect(pool) == IF pool = << >> THEN { "None" } ELSE Range(pool)

\* random.choice(self.proxies): the proxies it may return
RandomProxy(pool) == Range(pool)

\* a proxy drawn again for each repository page
WorkerProxyDrawn(cur, pool) == Range(pool)

\* proxies=self.current_proxy in _fetch_repo_language
WorkerProxy(cur, pool) == { cur }

\* every record shares the language_stats dict of the first
WrittenItemShared(k) == 1

\* item['extra']['language_stats'][language] = ... : the record written
WrittenItem(k) == k

\* the parser class that serves a category
ParserOf(t) ==
    IF t = Repositories THEN "RepositoryParser" ELSE "WikisIssuesBaseParser"

\* GitHubCrawler(keywords, proxies, search_type)
Construct ==
    /\ pc = "new"
    /\ search_type' = Lower(token)
    /\ IF UnknownSearchType(Lower(token))
       THEN /\ pc' = "rejected"
            /\ error' = UnknownSearchTypeError(Lower(token))
       ELSE /\ pc' = "ready"
            /\ UNCHANGED error
    /\ UNCHANGED << token, proxies, links, current_proxy, primary, parsed,
                    results, submitted, numThreads, fut, fetchProxy, runs,
                    pages, returned, outOfOrder >>

\* search() up to the search request: the proxy is chosen and the request
\* sent through it
SendSearch ==
    /\ pc = "ready"
    /\ IF RandomProxy(proxies) = {}
       THEN /\ pc' = "failed"
            /\ error' = EmptyPoolError
            /\ UNCHANGED << current_proxy, primary >>
       ELSE /\ \E p \in RandomProxy(proxies) :
                 /\ current_proxy' = p
                 /\ primary' = [sent |-> TRUE, proxy |-> p, status |-> 0]
            /\ pc' = "fetching"
            /\ UNCHANGED error
    /\ UNCHANGED << token, proxies, links, search_type, parsed, results,
                    submitted, numThreads, fut, fetchProxy, runs, pages,
                    returned, outOfOrder >>

\* search() from the search response to the executor (repositories) or to
\* its return (wikis, issues)
ReceiveSearch(status) ==
    /\ pc = "fetching"
    /\ primary' = [primary EXCEPT !.status = status]
    /\ IF NotOk(status)
       THEN /\ pc' = "failed"
            /\ error' = FetchError(status)
            /\ UNCHANGED << parsed, results, fut, fetchProxy, runs, returned >>
       ELSE /\ parsed' = TRUE
            /\ UNCHANGED error
            /\ IF ParserOf(search_type) = "RepositoryParser"
               THEN /\ results' = RepositoryResults(links)
                    /\ fut' = [k \in 1..Len(results') |-> Created]
                    /\ fetchProxy' = [k \in 1..Len(results') |-> "None"]
                    /\ runs' = [k \in 1..Len(results') |-> 0]
                    /\ pc' = "mapping"
                    /\ UNCHANGED returned
               ELSE /\ results' = UrlResults(links)
                    /\ returned' = results'
                    /\ pc' = "returned"
                    /\ UNCHANGED << fut, fetchProxy, runs >>
    /\ UNCHANGED << token, proxies, links, search_type, current_proxy,
                    submitted, numThreads, pages, outOfOrder >>

\* executor.map: submit() of the next result
Submit ==
    /\ pc = "mapping"
    /\ submitted < Len(results)
    /\ submitted' = submitted + 1
    /\ fut' = [fut EXCEPT ![submitted + 1].state = "queued"]
    /\ numThreads' = AdjustThreadCount(numThreads, fut)
    /\ UNCHANGED << token, proxies, links, pc, search_type, current_proxy,
                    error, primary, parsed, results, fetchProxy, runs, pages,
                    returned, outOfOrder >>

\* a pool thread takes the oldest queued work item and sends the request of
\* _fetch_repo_language
WorkerStart(i) ==
    /\ i \in InState(fut, "queued")
    /\ \A k \in InState(fut, "queued") : i <= k
    /\ Cardinality(InState(fut, "running")) < numThreads
    /\ fut' = [fut EXCEPT ![i].state = "running"]
    /\ runs' = [runs EXCEPT ![i] = @ + 1]
    /\ \E p \in WorkerProxy(current_proxy, proxies) :
          fetchProxy' = [fetchProxy EXCEPT ![i] = p]
    /\ UNCHANGED << token, proxies, links, pc, search_type, current_proxy,
                    error, primary, parsed, results, submitted, numThreads,
                    pages, returned, outOfOrder >>

\* the response of _fetch_repo_language arrives: status check, parse, writes;
\* an exception is kept in the future of the work item
WorkerFinish(i) ==
    /\ i \in InState(fut, "running")
    /\ LET w == WrittenItem(i)
           page == pages[results[i].url]
           out == ParseRepoPage(results[w].extra.language_stats, page)
       IN  /\ results' = [results EXCEPT ![w].extra.language_stats = out.stats]
           /\ fut' = [fut EXCEPT ![i] = [state |-> "finished", exc |-> out.exc]]
    /\ outOfOrder' = (outOfOrder \/ \E k \in 1..(i - 1) : fut[k].state # "finished")
    /\ UNCHANGED << token, proxies, links, pc, search_type, current_proxy,
                    error, primary, parsed, submitted, numThreads, fetchProxy,
                    runs, pages, returned >>

\* the with block ends (shutdown(wait=True)) and search() returns results
Return ==
    /\ pc = "mapping"
    /\ submitted = Len(results)
    /\ AllFinished(fut)
    /\ pc' = "returned"
    /\ returned' = results
    /\ UNCHANGED << token, proxies, links, search_type, current_proxy, error,
                    primary, parsed, results, submitted, numThreads, fut,
                    fetchProxy, runs, pages, outOfOrder >>

----------------------------------------------------------------------------
(* Specifications *)

Urls == { UrlJoin(base_url, h) : h \in Hrefs }

\* search pages of up to n links
LinkLists(n) == UNION { [1..m -> Hrefs] : m \in 0..n }

\* search pages of up to n links to the same repository
PoolLinkLists(n) == { [k \in 1..m |-> PoolHref] : m \in 0..n }

\* the repository pages of the site
Sites == [Urls -> PageKinds]

\* sites whose repository pages are all the same page: the page of tests.py,
\* or not found
PoolSites ==
    { [u \in Urls |-> page] :
        page \in { p \in PageKinds : NotOk(p.status) \/ Len(p.spans) = 2 } }

\* the call of main.py and its variants of the category
PoolTokens == { t \in Tokens : Head(t) \in { "R", "I", "w" } }

\* the pool of main.py, and an empty one
PoolPools == { << >>, << "51.91.109.83:80" >> }

InitWith(tokens, pools, linkLists, sites) ==
    /\ token \in tokens
    /\ proxies \in pools
    /\ links \in linkLists
    /\ pages \in sites
    /\ pc = "new"
    /\ search_type = << >>
    /\ current_proxy = "None"
    /\ error = NoError
    /\ primary = [sent |-> FALSE, proxy |-> "None", status |-> 0]
    /\ parsed = FALSE
    /\ results = << >>
    /\ submitted = 0
    /\ numThreads = 0
    /\ fut = << >>
    /\ fetchProxy = << >>
    /\ runs = << >>
    /\ returned = << >>
    /\ outOfOrder = FALSE

Init == InitWith(Tokens, Pools, LinkLists(MaxLinks), Sites)

InitPool == InitWith(PoolTokens, PoolPools, PoolLinkLists(MaxPoolLinks), PoolSites)

Next ==
    \/ Construct
    \/ SendSearch
    \/ \E status \in Statuses : ReceiveSearch(status)
    \/ Submit
    \/ \E i \in DOMAIN fut : WorkerStart(i)
    \/ \E i \in DOMAIN fut : WorkerFinish(i)
    \/ Return

Spec == Init /\ [][Next]_vars

SpecPool == InitPool /\ [][Next]_vars

\* every request is answered, and the caller's thread and the pool threads
\* are scheduled
Fairness ==
    /\ WF_vars(Construct)
    /\ WF_vars(SendSearch)
    /\ WF_vars(\E status \in Statuses : ReceiveSearch(status))
    /\ WF_vars(Submit)
    /\ WF_vars(\E i \in DOMAIN fut : WorkerStart(i))
    /\ WF_vars(\E i \in DOMAIN fut : WorkerFinish(i))
    /\ WF_vars(Return)

FairSpec == Init /\ [][Next]_vars /\ Fairness

----------------------------------------------------------------------------
(* Vocabulary of the claims *)

Started == InState(fut, "running") \cup InState(fut, "finished")

IsRepositorySearch == search_type = Repositories

\* the page the site serves for result k
PageOf(k) == pages[results[k].url]

\* c and d are the same letter up to case, or the same character
SameCharIgnoringCase(c, d) ==
    \/ c = d
    \/ \E k \in 1..26 : {c, d} = {UpperLetters[k], LowerLetters[k]}

SameIgnoringCase(s, t) ==
    /\ Len(s) = Len(t)
    /\ \A k \in 1..Len(s) : SameCharIgnoringCase(s[k], t[k])

\* l has no uppercase letter and equals t up to case
IsLowercased(l, t) ==
    /\ SameIgnoringCase(l, t)
    /\ \A k \in 1..Len(l) : \A j \in 1..26 : l[k] # UpperLetters[j]

KnownToken(t) == \E c \in SearchTypes : SameIgnoringCase(t, c)

----------------------------------------------------------------------------
(* Claims *)

\* C1: when the search page was fetched with 200 and the enrichment fetch of
\* some repository returned a status other than 200, search() fails and
\* returns no result sequence.
C1_EnrichmentFailureAbortsSearch ==
    (\E k \in DOMAIN fut :
        fut[k].state = "finished" /\ PageOf(k).status # 200)
    => pc # "returned"

\* C2: for every category and every status other than 200 of the search
\* page, search() fails with an error carrying that status, returns
\* nothing, and neither parses results nor starts an enrichment fetch.
C2_PrimaryFailure ==
    (primary.status # 0 /\ primary.status # 200)
    => /\ pc = "failed"
       /\ error.type = "FetchFailed"
       /\ error.status = primary.status
       /\ ~parsed
       /\ Len(results) = 0
       /\ Len(returned) = 0
       /\ DOMAIN fut = {}

\* C2 witness: a wikis search whose search page came back with 204
C2_Witness ==
    /\ pc = "failed"
    /\ search_type = Wikis
    /\ primary.status = 204
    /\ Len(links) > 0

\* C3: a search that returns hands back one record per result link, in the
\* order of the links (none for no links), whatever the order in which the
\* enrichment workers ran and finished.
C3_OneRecordPerLinkInOrder ==
    pc = "returned"
    => /\ error = NoError
       /\ Len(returned) = Len(links)
       /\ \A k \in 1..Len(links) :
             /\ returned[k].url = base_url \o << "/" >> \o StripSlash(links[k])
                                  \o (IF links[k][Len(links[k])] = "/"
                                      THEN << "/" >> ELSE << >>)
             /\ IsRepositorySearch => Len(returned[k].extra.owner) = 1
                                      /\ returned[k].extra.owner[1] = links[k][2]

\* C3 witness: a repository search over repeated and distinct links returned
\* after a worker finished before one of a lower index
C3_Witness ==
    /\ pc = "returned"
    /\ IsRepositorySearch
    /\ outOfOrder
    /\ Len(links) = 3
    /\ links[1] = links[3]
    /\ links[1] # links[2]

\* C4: a token whose lowercase form is none of the three categories is
\* rejected by the constructor with an error naming the lowercased token,
\* before a proxy is chosen or a request sent; a token equal to a category
\* up to case is accepted and its lowercase form stays the category.
C4_CategoryValidation ==
    /\ pc = "rejected"
       => /\ ~KnownToken(token)
          /\ error.type = "UnknownSearchType"
          /\ IsLowercased(error.name, token)
          /\ current_proxy = "None"
          /\ ~primary.sent
          /\ DOMAIN fut = {}
    /\ pc \notin {"new", "rejected"}
       => /\ KnownToken(token)
          /\ search_type \in SearchTypes
          /\ IsLowercased(search_type, token)
    /\ error.type = "UnknownSearchType" => pc = "rejected"

\* C4 witness: "Wiki" was rejected under the name "wiki"
C4_Witness ==
    /\ pc = "rejected"
    /\ token # error.name
    /\ error.name = << "w","i","k","i" >>

\* C5: a repository page fetched with 200 that has no Languages heading
\* makes the extraction end without an error and with an empty mapping, and
\* the search returns that result with language_stats = {}.
C5_NoHeadingIsNoError ==
    \A k \in DOMAIN fut :
        (fut[k].state = "finished" /\ PageOf(k).status = 200 /\ ~PageOf(k).heading)
        => /\ fut[k].exc = NoError
           /\ results[k].extra.language_stats = EmptyDict

\* C6: one proxy is chosen per search call; the search request and every
\* enrichment request go through it, and it is the value of current_proxy
\* for as long as a worker runs.
C6_OneProxyPerSearch ==
    /\ primary.sent
       => /\ primary.proxy \in Range(proxies)
          /\ current_proxy = primary.proxy
    /\ ~primary.sent => current_proxy = "None"
    /\ \A k \in Started : fetchProxy[k] = primary.proxy
    /\ Started # {} => primary.sent

\* C6 witness: with two proxies in the pool the second was chosen, and two
\* repository pages were fetched through it
C6_Witness ==
    /\ pc = "returned"
    /\ Len(proxies) = 2
    /\ current_proxy = proxies[2]
    /\ Cardinality(Started) >= 2

\* C7: with an empty proxy pool search() fails with the empty-pool error and
\* sends no request, neither for the search page nor for a repository page.
C7_EmptyPoolFailsBeforeAnyRequest ==
    Len(proxies) = 0
    => /\ ~primary.sent
       /\ Started = {}
       /\ pc \in {"new", "rejected", "ready", "failed"}
       /\ pc = "failed" => error = EmptyPoolError

\* C7 witness: a search of a valid category over an empty pool has failed
C7_Witness ==
    /\ Len(proxies) = 0
    /\ pc = "failed"
    /\ search_type \in SearchTypes

\* C8: at most MAX_WORKERS enrichment operations are in progress at any
\* moment, however many results there are, and none is ever started outside
\* a repository search.
C8_BoundedWorkers ==
    /\ Cardinality(InState(fut, "running")) <= MAX_WORKERS
    /\ ~IsRepositorySearch => DOMAIN fut = {}

\* C8 witness: MAX_WORKERS operations are in progress while a further
\* result waits in the queue
C8_Witness ==
    /\ Cardinality(InState(fut, "running")) = MAX_WORKERS
    /\ InState(fut, "queued") # {}

\* C9: each result is handed to one worker operation, and a step changes the
\* language_stats of a result only by finishing that result's own operation;
\* url and owner of every result stay as extracted.
C9_Step ==
    pc = "mapping"
    => /\ \A k \in DOMAIN results :
             /\ results'[k].url = results[k].url
             /\ results'[k].extra.owner = results[k].extra.owner
             /\ results'[k].extra.language_stats # results[k].extra.language_stats
                => fut[k].state = "running" /\ fut'[k].state = "finished"
             /\ runs'[k] <= 1
             /\ fut[k].state = "finished" => fut'[k] = fut[k]
       /\ pc' = "returned" => \A k \in DOMAIN results : runs[k] = 1

C9_OwnResultOnly == [][C9_Step]_vars

\* C9 witness: two results were returned with different, non-empty
\* language_stats
C9_Witness ==
    /\ pc = "returned"
    /\ IsRepositorySearch
    /\ Len(returned) >= 2
    /\ returned[1].extra.language_stats # EmptyDict
    /\ returned[2].extra.language_stats # EmptyDict
    /\ returned[1].extra.language_stats # returned[2].extra.language_stats

\* the number of leading spans whose aria-label has a percentage
WellFormedPrefix(spans) ==
    CHOOSE n \in 0..Len(spans) :
        /\ \A k \in 1..n : Len(spans[k]) >= 2
        /\ n < Len(spans) => Len(spans[n + 1]) < 2

\* the language_stats a repository page determines
StatsOfPage(page) ==
    IF page.status # 200 \/ ~page.heading THEN EmptyDict
    ELSE LET n == WellFormedPrefix(page.spans)
             name(k) == SubSeq(page.spans[k], 1, Len(page.spans[k]) - 1)
             last(l) == CHOOSE k \in 1..n :
                           /\ name(k) = l
                           /\ \A j \in 1..n : name(j) = l => j <= k
         IN  [l \in { name(k) : k \in 1..n } |->
                 << page.spans[last(l)][Len(page.spans[last(l)])], "%" >>]

\* C10: the outcome of a repository search is determined by the search page
\* and the repository pages alone: the returned sequence and every
\* language_stats in it are the same for every schedule of the workers.
C10_OutcomeIndependentOfSchedule ==
    (pc = "returned" /\ IsRepositorySearch)
    => /\ error = NoError
       /\ Len(returned) = Len(links)
       /\ \A k \in 1..Len(returned) :
             /\ returned[k].url = UrlJoin(base_url, links[k])
             /\ returned[k].extra.language_stats = StatsOfPage(pages[returned[k].url])

\* C10 witness: two pages that both list Python were fetched, the later
\* result finished first, and the search returned
C10_Witness ==
    /\ pc = "returned"
    /\ IsRepositorySearch
    /\ outOfOrder
    /\ Len(returned) >= 2
    /\ returned[1].url # returned[2].url
    /\ << "Python" >> \in DOMAIN returned[1].extra.language_stats
    /\ << "Python" >> \in DOMAIN returned[2].extra.language_stats
    /\ returned[1].extra.language_stats # returned[2].extra.language_stats

\* the constructor or search() has returned or raised
Ended == pc \in {"rejected", "failed", "returned"}

\* C11: search() returns its results only when every enrichment operation
\* it started has finished; from then on no worker runs and no record
\* changes; and when every request is answered, search() returns or fails.
C11_AfterReturn ==
    pc = "returned"
    => /\ InState(fut, "queued") \cup InState(fut, "running") = {}
       /\ submitted = Len(results)
       /\ returned = results
       /\ results' = results
       /\ returned' = returned
       /\ fut' = fut
       /\ pc' = "returned"

C11_ReturnsAfterAllWorkers ==
    /\ [][C11_AfterReturn]_vars
    /\ <>Ended

\* C11 witness: a repository search returned after three workers wrote, the
\* last of them not the one of the last result
C11_Witness ==
    /\ pc = "returned"
    /\ IsRepositorySearch
    /\ outOfOrder
    /\ Len(returned) = 3
    /\ \A k \in 1..3 : returned[k].extra.language_stats # EmptyDict

====
